---- MODULE Spec2Model ----
(***************************************************************************)
(* State-machine model of RealtimeTranscriber (src/main.py): the channel   *)
(* supervisor send_receive, the two asyncio tasks send_audio and           *)
(* receive_transcript it starts for every connection attempt, the blocking *)
(* conversation step process_transcripts, and the keyboard listener thread *)
(* (on_key_press) that flips the toggle and sets the stop flag.            *)
(*                                                                         *)
(* Scheduling.  The supervisor and the tasks share one asyncio event loop: *)
(* each action below is one run of a coroutine from one suspension point   *)
(* to the next.  process_transcripts is synchronous, so while a receiver   *)
(* is inside it no coroutine runs (Blocked); only the listener thread,     *)
(* which is an OS thread, still acts.                                      *)
(***************************************************************************)
EXTENDS Integers, Sequences, FiniteSets, TLC

\* ---------------------------------------------------------------- bounds
MaxAttempts == 2    \* connection attempts of one run
MaxEvents   == 2    \* inbound events delivered over all connections
MaxToggles  == 2    \* spacebar presses
MaxIncs     == 3    \* increments yielded by one completion stream
MaxFrames   == 2    \* frames the audio source delivers

Attempts == 1..MaxAttempts

\* ------------------------------------------------------------- constants
system_prompt == ""
NOTE == "Note: Remember to always be concise, brief, straight-to-the-point..."
IDLE_MESSAGE == "Session idle for too long"
FINAL == "FinalTranscript"

\* The inputs.  The k-th inbound event carries the k-th text of Texts
\* (whatever its kind), and a completion stream yields a prefix of Incs:
\* none or MaxIncs of them when it runs to its end, any number when it
\* raises.
Texts == <<"Hello ", "there", ".", "", "!">>
Incs  == <<"Hi", "", " back", "!">>

\* Exceptions a task or the connect call can end with.  The two
\* ConnectionClosedError values differ in str(e): with the idle message
\* or without it.
ConnectionClosedErrorIdle == "ConnectionClosedError: " \o IDLE_MESSAGE
ConnectionClosedError     == "ConnectionClosedError"
ConnectionClosedOK        == "ConnectionClosedOK"
JSONDecodeError           == "JSONDecodeError"
KeyError                  == "KeyError"
APIError                  == "APIError"
OSError                   == "OSError"
CloseKinds == {ConnectionClosedErrorIdle, ConnectionClosedError, ConnectionClosedOK}
Exceptions == CloseKinds \cup {JSONDecodeError, KeyError, APIError, OSError}

\* Inbound payloads.  A payload either fails json.loads or parses to an
\* object, modelled as a function from its field names to strings.
NoResult   == [raw |-> "none"]
Unparsable == [raw |-> "garbage"]
Object(f)  == [raw |-> "json", fields |-> f]
FinalEvent(t)   == Object([k \in {"text", "message_type"} |->
                             IF k = "text" THEN t ELSE FINAL])
PartialEvent(t) == Object([k \in {"text", "message_type"} |->
                             IF k = "text" THEN t ELSE "PartialTranscript"])
SessionBegins   == Object([k \in {"message_type"} |-> "SessionBegins"])
NoTypeEvent(t)  == Object([k \in {"text"} |-> t])
Events(t) == {FinalEvent(t), PartialEvent(t), NoTypeEvent(t), SessionBegins,
              Unparsable}

VARIABLES
  transcribing,        \* self.transcribing: the toggle (TRUE = Active)
  stop_transcription,  \* self.stop_transcription: the shutdown flag
  user_message,        \* self.user_message: the transcript buffer
  assistant_message,   \* self.assistant_message: the response accumulator
  messages,            \* self.messages: the conversation log
  main,                \* position of the main thread in run()/send_receive()
  listener,            \* the keyboard listener thread
  attempt,             \* number of websockets.connect calls made so far
  conn,                \* the connection of the current attempt
  sendPc,              \* sendPc[a]: the send_audio task of attempt a
  recvPc,              \* recvPc[a]: the receive_transcript task of attempt a
  gatherExc,           \* first exception delivered to the pending gather
  stream,              \* the completion stream: "none", "request", "open", "failed"
  stdout,              \* increments printed by the call in progress
  stderr,              \* fatal reports emitted (print of line 93, traceback)
  pulled,              \* frames read from the audio source so far
  sent,                \* frames transmitted, in the order of transmission
  \* history variables
  pending,             \* texts of the final events since the last handoff
  yielded,             \* increments yielded by the stream in progress
  calls,               \* arguments of the process_transcripts calls so far
  nEvents,             \* inbound events delivered so far
  nToggles,            \* spacebar presses so far
  result               \* the payload websocket.recv() returned, while handled

vars == <<transcribing, stop_transcription, user_message, assistant_message,
          messages, main, listener, attempt, conn, sendPc, recvPc, gatherExc,
          stream, stdout, stderr, pulled, sent, pending, yielded, calls,
          nEvents, nToggles, result>>

sessionVars == <<user_message, assistant_message, messages, pending>>
procVars    == <<stream, stdout, yielded, calls>>
keyVars     == <<transcribing, stop_transcription, nToggles>>
recvVars    == <<result, nEvents>>
audioVars   == <<pulled, sent>>

\* ---------------------------------------------------------------- helpers
Range(s) == {s[i] : i \in DOMAIN s}

RECURSIVE Concat(_)
Concat(s) == IF s = <<>> THEN "" ELSE Head(s) \o Concat(Tail(s))

Entry(role, content) == [role |-> role, content |-> content]

\* Mutant of append_message: the entry is inserted at the front.
append_message_Prepend(log, role, message) == <<Entry(role, message)>> \o log

\* self.messages.append({"role": role, "content": message})
append_message(log, role, message) == Append(log, Entry(role, message))

\* A task that has not ended: it is scheduled, suspended or (the receiver)
\* inside process_transcripts.
Running == {"run", "loop", "recv", "proc"}

\* Mutant of Blocked: process_transcripts runs off the event loop (in a
\* thread, or awaited), which goes on scheduling the other tasks.
Blocked_Never == FALSE

\* The event loop is inside a synchronous process_transcripts call.
Blocked == \E a \in Attempts : recvPc[a] = "proc"

Init ==
  /\ transcribing = FALSE
  /\ stop_transcription = FALSE
  /\ user_message = ""
  /\ assistant_message = ""
  /\ messages = append_message(<<Entry("system", system_prompt)>>, "user", NOTE)
  /\ main = "created"
  /\ listener = "unstarted"
  /\ attempt = 0
  /\ conn = "none"
  /\ sendPc = [a \in Attempts |-> "none"]
  /\ recvPc = [a \in Attempts |-> "none"]
  /\ gatherExc = "none"
  /\ stream = "none"
  /\ stdout = <<>>
  /\ stderr = {}
  /\ pulled = 0
  /\ sent = <<>>
  /\ pending = <<>>
  /\ yielded = <<>>
  /\ calls = <<>>
  /\ nEvents = 0
  /\ nToggles = 0
  /\ result = NoResult

\* ------------------------------------------------- the listener thread
\* Mutant of toggle_transcription: the key only switches transcription on.
toggle_transcription_SetsActive(t) == TRUE

\* toggle_transcription: self.transcribing = not self.transcribing
toggle_transcription(t) == ~t

\* on_key_press(key), run by the listener thread for every key press.
\* space flips the toggle (after time.sleep(0.3) when it is Active);
\* esc sets the stop flag and, returning False, ends the listener, which
\* lets a main thread blocked in listener.join() leave run().
on_key_press(key) ==
  /\ listener = "running"
  /\ \/ /\ key = "space"
        /\ nToggles < MaxToggles
        /\ transcribing' = toggle_transcription(transcribing)
        /\ nToggles' = nToggles + 1
        /\ UNCHANGED <<stop_transcription, listener, main>>
     \/ /\ key = "esc"
        /\ stop_transcription' = TRUE
        /\ listener' = "stopped"
        /\ main' = IF main = "joining" THEN "exited" ELSE main
        /\ UNCHANGED <<transcribing, nToggles>>
  /\ UNCHANGED <<audioVars, sessionVars, procVars, recvVars, attempt, conn, sendPc,
                 recvPc, gatherExc, stderr>>

\* ------------------------------------------------------ the main thread
\* run(): listener.start(), then asyncio.run(self.send_receive()).
run ==
  /\ main = "created"
  /\ main' = "loop"
  /\ listener' = "running"
  /\ UNCHANGED <<audioVars, sessionVars, procVars, recvVars, keyVars, attempt, conn,
                 sendPc, recvPc, gatherExc, stderr>>

\* asyncio.run() cancels the tasks that are still pending when the main
\* coroutine ends.
Cancelled(pcs) ==
  [a \in Attempts |-> IF pcs[a] \in Running THEN "cancelled" ELSE pcs[a]]

\* The connection a task of attempt a holds.  The connection of an
\* earlier attempt is closed: the supervisor left its "async with" block.
ConnOf(a) == IF a = attempt THEN conn ELSE "closed"

\* send_receive returns (loop condition false, or a break): asyncio.run
\* returns and run() goes on to listener.join(), which returns at once
\* when the listener has ended and blocks otherwise.
Return ==
  /\ main' = IF listener = "stopped" THEN "exited" ELSE "joining"
  /\ sendPc' = Cancelled(sendPc)
  /\ recvPc' = Cancelled(recvPc)
  /\ UNCHANGED <<attempt, listener>>

\* send_receive raises: asyncio.run and run() raise, the process dies with
\* a traceback, and the daemon listener thread dies with it.
Crash ==
  /\ main' = "crashed"
  /\ listener' = "killed"
  /\ stderr' = stderr \cup {"Traceback"}
  /\ sendPc' = Cancelled(sendPc)
  /\ recvPc' = Cancelled(recvPc)
  /\ UNCHANGED attempt

\* Line 70 with the flag unset: the next websockets.connect call.
Connect ==
  /\ main' = "connecting"
  /\ attempt' = attempt + 1
  /\ UNCHANGED <<sendPc, recvPc, listener>>

\* Mutant of WhileCheck: "while True:" at line 70.
WhileCheck_IgnoresStop == Connect

\* while not self.stop_transcription
WhileCheck == IF stop_transcription THEN Return ELSE Connect

\* Mutant of IsIdle: the message is compared with another text and never
\* found.
IsIdle_NeverMatches(e) == FALSE

\* "Session idle for too long" in str(e)
IsIdle(e) == e = ConnectionClosedErrorIdle

\* The except clauses of send_receive: what the supervisor does with an
\* exception raised inside the try block.
OnException(e) ==
  IF e \in {ConnectionClosedErrorIdle, ConnectionClosedError}
    THEN (IF ~IsIdle(e) THEN "raise" ELSE "continue")
    ELSE "break"

Handle(e) ==
  CASE OnException(e) = "continue" -> WhileCheck /\ UNCHANGED stderr
    [] OnException(e) = "raise"    -> Crash
    [] OnException(e) = "break"    ->
         Return /\ stderr' = stderr \cup {"Unexpected error"}

\* First step of the send_receive coroutine: the loop condition.
send_receive_start ==
  /\ main = "loop"
  /\ WhileCheck
  /\ UNCHANGED <<audioVars, sessionVars, procVars, recvVars, keyVars, conn, gatherExc,
                 stderr>>

\* websockets.connect succeeds; after the 0.1 s sleep both tasks are
\* created and the supervisor waits in gather.
send_receive_connected ==
  /\ main = "connecting"
  /\ ~Blocked
  /\ conn' = "open"
  /\ sendPc' = [sendPc EXCEPT ![attempt] = "run"]
  /\ recvPc' = [recvPc EXCEPT ![attempt] = "loop"]
  /\ gatherExc' = "none"
  /\ main' = "gather"
  /\ UNCHANGED <<audioVars, sessionVars, procVars, recvVars, keyVars, attempt, listener,
                 stderr>>

\* websockets.connect raises (refused, bad handshake, ...).
send_receive_connect_fails ==
  /\ main = "connecting"
  /\ ~Blocked
  /\ Handle(OSError)
  /\ UNCHANGED <<audioVars, sessionVars, procVars, recvVars, keyVars, conn, gatherExc>>

\* Mutant of send_receive_gather: the buffer is cleared when a connection
\* ends.
send_receive_gather_ClearsBuffer ==
  /\ main = "gather"
  /\ ~Blocked
  /\ \/ /\ gatherExc # "none"
        /\ Handle(gatherExc)
     \/ /\ gatherExc = "none"
        /\ sendPc[attempt] = "done"
        /\ recvPc[attempt] = "done"
        /\ WhileCheck
        /\ UNCHANGED stderr
  /\ conn' = "closed"
  /\ gatherExc' = "none"
  /\ user_message' = ""
  /\ UNCHANGED <<audioVars, assistant_message, messages, pending, procVars,
                 recvVars, keyVars>>

\* gather ends: with the first exception a task raised, or normally when
\* both tasks have returned.
send_receive_gather ==
  /\ main = "gather"
  /\ ~Blocked
  /\ \/ /\ gatherExc # "none"
        /\ Handle(gatherExc)
     \/ /\ gatherExc = "none"
        /\ sendPc[attempt] = "done"
        /\ recvPc[attempt] = "done"
        /\ WhileCheck
        /\ UNCHANGED stderr
  /\ conn' = "closed"
  /\ gatherExc' = "none"
  /\ UNCHANGED <<audioVars, sessionVars, procVars, recvVars, keyVars>>

\* The remote peer closes the connection of the current attempt, or the
\* connection breaks.
ConnectionCloses(kind) ==
  /\ main = "gather"
  /\ conn = "open"
  /\ IsIdle(kind) => attempt < MaxAttempts
  /\ conn' = kind
  /\ UNCHANGED <<audioVars, sessionVars, procVars, recvVars, keyVars, main, listener,
                 attempt, sendPc, recvPc, gatherExc, stderr>>

\* ------------------------------------------------------------ the tasks
\* A task of attempt a ends with exception e.  gather passes on the first
\* exception of the tasks it is waiting for; an exception of a task whose
\* gather is over is never retrieved.
Delivered(a, e) ==
  IF a = attempt /\ main = "gather" /\ gatherExc = "none" THEN e ELSE gatherExc

\* Mutant of Transmit: the message is written twice.
Transmit_Twice(out, frame) == out \o <<frame, frame>>

\* Mutant of Transmit: a frame overtakes the frames sent before it.
Transmit_Front(out, frame) == <<frame>> \o out

\* await websocket.send(...): the frame goes out after the frames sent
\* before it.
Transmit(out, frame) == Append(out, frame)

\* One cycle of send_audio: the loop condition, the toggle check, the
\* frame read and websocket.send, up to the sleep.  send raises on a
\* closed connection, after the frame was read.
send_audio(a) ==
  /\ sendPc[a] = "run"
  /\ ~Blocked
  /\ IF stop_transcription
       THEN /\ sendPc' = [sendPc EXCEPT ![a] = "done"]
            /\ UNCHANGED <<gatherExc, audioVars>>
       ELSE IF transcribing
         THEN /\ pulled < MaxFrames
              /\ pulled' = pulled + 1
              /\ IF ConnOf(a) = "open"
                   THEN /\ sent' = Transmit(sent, pulled')
                        /\ UNCHANGED <<sendPc, gatherExc>>
                   ELSE /\ sendPc' = [sendPc EXCEPT ![a] = "raised"]
                        /\ gatherExc' = Delivered(a, ConnOf(a))
                        /\ UNCHANGED sent
         ELSE UNCHANGED <<sendPc, gatherExc, audioVars>>
  /\ UNCHANGED <<sessionVars, procVars, recvVars, keyVars, main, listener,
                 attempt, conn, recvPc, stderr>>

\* Mutant of receive_transcript_loop: "while True:" at line 115.
receive_transcript_loop_IgnoresStop(a) ==
  /\ recvPc[a] = "loop"
  /\ ~Blocked
  /\ recvPc' = [recvPc EXCEPT ![a] = "recv"]
  /\ result' = NoResult
  /\ UNCHANGED <<audioVars, sessionVars, procVars, nEvents, keyVars, main,
                 listener, attempt, conn, sendPc, gatherExc, stderr>>

\* receive_transcript, line 115: the loop condition, then the call of
\* websocket.recv().
receive_transcript_loop(a) ==
  /\ recvPc[a] = "loop"
  /\ ~Blocked
  /\ recvPc' = [recvPc EXCEPT ![a] = IF stop_transcription THEN "done" ELSE "recv"]
  /\ result' = NoResult
  /\ UNCHANGED <<audioVars, sessionVars, procVars, nEvents, keyVars, main, listener,
                 attempt, conn, sendPc, gatherExc, stderr>>

\* websocket.recv() raises because the connection is closed.
receive_transcript_closed(a) ==
  /\ recvPc[a] = "recv"
  /\ ~Blocked
  /\ ConnOf(a) # "open"
  /\ recvPc' = [recvPc EXCEPT ![a] = "raised"]
  /\ gatherExc' = Delivered(a, ConnOf(a))
  /\ UNCHANGED <<audioVars, sessionVars, procVars, recvVars, keyVars, main, listener,
                 attempt, conn, sendPc, stderr>>

\* json.loads(result): the parsed object, or the exception.
Loads(ev) ==
  IF ev.raw = "json" THEN [exc |-> "none", value |-> ev.fields]
                     ELSE [exc |-> JSONDecodeError]

\* Mutant of Line118: the message_type is not looked at.
Line118_IgnoresType(transcript) ==
  IF "text" \in DOMAIN transcript THEN "true" ELSE "false"

\* Line 118: 'text' in transcript and transcript['message_type'] ==
\* 'FinalTranscript'.  The subscript raises KeyError when the key is
\* missing; "and" does not evaluate it when 'text' is missing.
Line118(transcript) ==
  IF "text" \notin DOMAIN transcript THEN "false"
  ELSE IF "message_type" \notin DOMAIN transcript THEN KeyError
  ELSE IF transcript["message_type"] = FINAL THEN "true" ELSE "false"

\* What receive_transcript does with one payload: "raise" an exception,
\* "skip" it, or "accumulate" its text.
Disposition(ev) ==
  IF Loads(ev).exc # "none" THEN [do |-> "raise", exc |-> Loads(ev).exc]
  ELSE IF Line118(Loads(ev).value) = KeyError
    THEN [do |-> "raise", exc |-> KeyError]
  ELSE IF Line118(Loads(ev).value) = "true"
    THEN [do |-> "accumulate", text |-> Loads(ev).value["text"]]
    ELSE [do |-> "skip"]

\* Mutant of Accumulate: "=" for "+=".
Accumulate_Overwrite(buffer, text) == text

\* self.user_message += transcript['text']
Accumulate(buffer, text) == buffer \o text

\* Mutant of Complete: the condition inverted.
Complete_Inverted(toggle) == toggle

\* Line 120: if not self.transcribing
Complete(toggle) == ~toggle

\* websocket.recv() returns payload ev: lines 116-123, up to the sleep or,
\* on a handoff, up to the entry of process_transcripts.
receive_transcript_event(a, ev) ==
  /\ recvPc[a] = "recv"
  /\ ~Blocked
  /\ ConnOf(a) = "open"
  /\ nEvents < MaxEvents
  /\ nEvents < Len(Texts)
  /\ ev \in Events(Texts[nEvents + 1])
  /\ nEvents' = nEvents + 1
  /\ result' = ev
  /\ LET d == Disposition(ev) IN
     CASE d.do = "raise" ->
            /\ recvPc' = [recvPc EXCEPT ![a] = "raised"]
            /\ gatherExc' = Delivered(a, d.exc)
            /\ UNCHANGED <<sessionVars, procVars>>
       [] d.do = "skip" ->
            /\ recvPc' = [recvPc EXCEPT ![a] = "loop"]
            /\ UNCHANGED <<sessionVars, procVars, gatherExc>>
       [] d.do = "accumulate" ->
            /\ user_message' = Accumulate(user_message, d.text)
            /\ pending' = Append(pending, d.text)
            /\ IF Complete(transcribing)
                 THEN /\ messages' = append_message(messages, "user", user_message')
                      /\ calls' = Append(calls, user_message')
                      /\ recvPc' = [recvPc EXCEPT ![a] = "proc"]
                      /\ stream' = "request"
                      /\ stdout' = <<>>
                      /\ yielded' = <<>>
                 ELSE /\ recvPc' = [recvPc EXCEPT ![a] = "loop"]
                      /\ UNCHANGED <<messages, procVars>>
            /\ UNCHANGED <<assistant_message, gatherExc>>
  /\ UNCHANGED <<audioVars, keyVars, main, listener, attempt, conn, sendPc,
                 stderr>>

\* ------------------------------------------------- process_transcripts
\* Mutant of Emit: "=" for "+=".
Emit_Overwrite(acc, content) == IF content # "" THEN content ELSE acc

\* if content: print(content); self.assistant_message += content
Emit(acc, content) == IF content # "" THEN acc \o content ELSE acc
Printed(out, content) == IF content # "" THEN Append(out, content) ELSE out

\* get_response_from_openai, line 148: chat.completions.create returns the
\* stream, or raises.
get_response_from_openai(a) ==
  /\ recvPc[a] = "proc"
  /\ stream = "request"
  /\ \/ /\ stream' = "open"
        /\ UNCHANGED <<recvPc, gatherExc>>
     \/ /\ stream' = "failed"
        /\ recvPc' = [recvPc EXCEPT ![a] = "raised"]
        /\ gatherExc' = Delivered(a, APIError)
  /\ UNCHANGED <<audioVars, sessionVars, stdout, yielded, calls, recvVars, keyVars, main,
                 listener, attempt, conn, sendPc, stderr>>

\* One iteration of the for loop of process_transcripts: the stream
\* yields an increment.
process_transcripts_next(a, content) ==
  /\ recvPc[a] = "proc"
  /\ stream = "open"
  /\ Len(yielded) < MaxIncs
  /\ Len(yielded) < Len(Incs)
  /\ content = Incs[Len(yielded) + 1]
  /\ yielded' = Append(yielded, content)
  /\ stdout' = Printed(stdout, content)
  /\ assistant_message' = Emit(assistant_message, content)
  /\ UNCHANGED <<audioVars, user_message, messages, pending, stream, calls,
                 recvVars, keyVars, main, listener, attempt, conn, sendPc, recvPc,
                 gatherExc, stderr>>

\* Mutant of process_transcripts_fails: line 139 in a "finally:" clause.
process_transcripts_fails_AppendsPartial(a) ==
  /\ recvPc[a] = "proc"
  /\ stream = "open"
  /\ stream' = "failed"
  /\ recvPc' = [recvPc EXCEPT ![a] = "raised"]
  /\ gatherExc' = Delivered(a, APIError)
  /\ messages' = append_message(messages, "assistant", assistant_message)
  /\ UNCHANGED <<audioVars, user_message, assistant_message, pending, stdout,
                 yielded, calls, recvVars, keyVars, main, listener, attempt,
                 conn, sendPc, stderr>>

\* The stream raises in the middle of the response.
process_transcripts_fails(a) ==
  /\ recvPc[a] = "proc"
  /\ stream = "open"
  /\ stream' = "failed"
  /\ recvPc' = [recvPc EXCEPT ![a] = "raised"]
  /\ gatherExc' = Delivered(a, APIError)
  /\ UNCHANGED <<audioVars, sessionVars, stdout, yielded, calls, recvVars, keyVars, main,
                 listener, attempt, conn, sendPc, stderr>>

\* The lengths at which a completion stream ends: at once, or after
\* MaxIncs increments.  It can raise at any length.
StreamLengths == {0, MaxIncs}

\* Mutant of process_transcripts_done: line 124 is missing.
process_transcripts_done_KeepsBuffer(a) ==
  /\ recvPc[a] = "proc"
  /\ stream = "open"
  /\ Len(yielded) \in StreamLengths
  /\ messages' = append_message(messages, "assistant", assistant_message)
  /\ assistant_message' = ""
  /\ stream' = "none"
  /\ recvPc' = [recvPc EXCEPT ![a] = "loop"]
  /\ stdout' = <<>>
  /\ yielded' = <<>>
  /\ UNCHANGED <<audioVars, user_message, pending, calls, recvVars, keyVars, main,
                 listener, attempt, conn, sendPc, gatherExc, stderr>>

\* Mutant of process_transcripts_done: line 139 under "if
\* self.assistant_message:".
process_transcripts_done_SkipsEmpty(a) ==
  /\ recvPc[a] = "proc"
  /\ stream = "open"
  /\ Len(yielded) \in StreamLengths
  /\ messages' = IF assistant_message # ""
                   THEN append_message(messages, "assistant", assistant_message)
                   ELSE messages
  /\ assistant_message' = ""
  /\ user_message' = ""
  /\ pending' = <<>>
  /\ stream' = "none"
  /\ recvPc' = [recvPc EXCEPT ![a] = "loop"]
  /\ stdout' = <<>>
  /\ yielded' = <<>>
  /\ UNCHANGED <<audioVars, calls, recvVars, keyVars, main, listener, attempt,
                 conn, sendPc, gatherExc, stderr>>

\* The stream is exhausted: lines 139-141, the return to
\* receive_transcript and its line 124, up to the sleep.
process_transcripts_done(a) ==
  /\ recvPc[a] = "proc"
  /\ stream = "open"
  /\ Len(yielded) \in StreamLengths
  /\ messages' = append_message(messages, "assistant", assistant_message)
  /\ assistant_message' = ""
  /\ user_message' = ""
  /\ pending' = <<>>
  /\ stream' = "none"
  /\ recvPc' = [recvPc EXCEPT ![a] = "loop"]
  /\ stdout' = <<>>
  /\ yielded' = <<>>
  /\ UNCHANGED <<audioVars, calls, recvVars, keyVars, main, listener, attempt,
                 conn, sendPc, gatherExc, stderr>>

\* --------------------------------------------------------- specification
Next ==
  \/ run
  \/ \E key \in {"space", "esc"} : on_key_press(key)
  \/ send_receive_start
  \/ send_receive_connected
  \/ send_receive_connect_fails
  \/ send_receive_gather
  \/ \E kind \in CloseKinds : ConnectionCloses(kind)
  \/ \E a \in Attempts : send_audio(a)
  \/ \E a \in Attempts : receive_transcript_loop(a)
  \/ \E a \in Attempts : receive_transcript_closed(a)
  \/ \E a \in Attempts, t \in Range(Texts) :
        \E ev \in Events(t) : receive_transcript_event(a, ev)
  \/ \E a \in Attempts : get_response_from_openai(a)
  \/ \E a \in Attempts, content \in Range(Incs) :
        process_transcripts_next(a, content)
  \/ \E a \in Attempts : process_transcripts_fails(a)
  \/ \E a \in Attempts : process_transcripts_done(a)

Spec == Init /\ [][Next]_vars

\* ---------------------------------------------------------------- fairness
\* The event loop runs every task that is ready: the coroutine send_receive
\* and the tasks it created.
SupervisorStep == run \/ send_receive_start \/ send_receive_gather
SenderStep(a) == send_audio(a)
ReceiverStep(a) == receive_transcript_loop(a) \/ receive_transcript_closed(a)

\* A blocking call in flight completes: websockets.connect returns or
\* raises, the completion request and its stream return, raise or end.
ConnectCompletes == send_receive_connected \/ send_receive_connect_fails
CompletionCompletes(a) ==
  \/ get_response_from_openai(a)
  \/ \E content \in Range(Incs) : process_transcripts_next(a, content)
  \/ process_transcripts_fails(a)
  \/ process_transcripts_done(a)

\* websocket.recv() in flight when the stop flag is set completes: a
\* message arrives, or the connection closes.
RecvCompletes(a) ==
  /\ stop_transcription
  /\ recvPc[a] = "recv"
  /\ \/ \E t \in Range(Texts) : \E ev \in Events(t) : receive_transcript_event(a, ev)
     \/ \E kind \in CloseKinds : ConnectionCloses(kind)

\* The key presses are the user's: no fairness for on_key_press.
FairSpec ==
  /\ Spec
  /\ WF_vars(SupervisorStep)
  /\ WF_vars(ConnectCompletes)
  /\ \A a \in Attempts :
        /\ WF_vars(SenderStep(a))
        /\ WF_vars(ReceiverStep(a))
        /\ WF_vars(CompletionCompletes(a))
        /\ WF_vars(RecvCompletes(a))

\* ================================================================ claims
IsPrefix(s, t) == Len(s) <= Len(t) /\ SubSeq(t, 1, Len(s)) = s
Last(s) == s[Len(s)]
UserEntries(log) == SelectSeq(log, LAMBDA e : e.role = "user")
AssistantEntries(log) == SelectSeq(log, LAMBDA e : e.role = "assistant")
NonEmpty(incs) == SelectSeq(incs, LAMBDA c : c # "")

\* A payload that is a final-type transcript event: an object with a
\* text field whose message_type is the final one.
IsFinalPayload(ev) ==
  /\ ev.raw = "json"
  /\ {"text", "message_type"} \subseteq DOMAIN ev.fields
  /\ ev.fields["message_type"] = FINAL

\* This step is the Receiver taking a payload from the connection.
Received == nEvents' = nEvents + 1

\* This step is a handoff: a user entry is appended.
Handoff == UserEntries(messages') # UserEntries(messages)

\* C1: the transcript buffer is the concatenation, in arrival order, of the
\* texts of the final-type events received since the last handoff, and
\* while the toggle is Active no step appends a user entry or invokes
\* process_transcripts.
C1_ActiveAccumulates ==
  /\ [](user_message = Concat(pending))
  /\ [][transcribing =>
          /\ ~Handoff
          /\ calls' = calls
          /\ (Received /\ IsFinalPayload(result')) =>
               /\ user_message' = user_message \o result'.fields["text"]
               /\ UNCHANGED messages]_vars

\* C1 witness: two final events have arrived while Active; their texts are
\* in the buffer in order and nothing has been handed off.
C1_Witness ==
  /\ transcribing
  /\ Len(pending) = 2
  /\ user_message = "Hello there"
  /\ calls = <<>>
  /\ Len(messages) = 2

\* C2 as claimed: the step that toggles Active -> Paused with a non-empty
\* buffer appends one user entry with the buffer contents and resets the
\* buffer.
C2_ToggleHandsOff ==
  [][(transcribing /\ ~transcribing' /\ user_message # "") =>
       /\ messages' = Append(messages, Entry("user", user_message))
       /\ user_message' = ""]_vars

\* C2 as amended: toggling changes neither the log nor the buffer; a user
\* entry is appended only by the Receiver taking a final-type event while
\* the toggle is Paused, it is exactly one entry, and its content is the
\* buffer contents followed by that event's text; the buffer is reset only
\* by the step that appends the assistant entry of that handoff.
C2_HandoffOnNextFinal ==
  [][/\ (transcribing # transcribing') => UNCHANGED <<messages, user_message>>
     /\ Handoff =>
          /\ ~transcribing
          /\ Received /\ IsFinalPayload(result')
          /\ messages' = Append(messages,
               Entry("user", user_message \o result'.fields["text"]))
          /\ user_message' = user_message \o result'.fields["text"]
     /\ (user_message # "" /\ user_message' = "") =>
          /\ Len(messages') = Len(messages) + 1
          /\ Last(messages').role = "assistant"
          /\ Last(messages).content = user_message]_vars

\* C2 witness: "Hello " arrived while Active, the toggle went to Paused,
\* "there" arrived, and the handoff of "Hello there" has completed.
C2_Witness ==
  /\ ~transcribing
  /\ nToggles = 2
  /\ Len(messages) = 4
  /\ messages[3] = Entry("user", "Hello there")
  /\ user_message = ""

\* C3: the Receiver taking a final-type event while Paused appends exactly
\* one user entry whose content is the concatenation of the final texts
\* since the previous handoff, the triggering one included, and calls
\* process_transcripts once with that text; until that call returns no
\* further entry of the user or call is made, and when the Receiver goes
\* back to its loop the buffer is empty.
C3_PausedFinalHandsOff ==
  [][/\ (Received /\ IsFinalPayload(result') /\ ~transcribing) =>
          /\ messages' = Append(messages, Entry("user",
               Concat(Append(pending, result'.fields["text"]))))
          /\ calls' = Append(calls,
               Concat(Append(pending, result'.fields["text"])))
          /\ \E a \in Attempts : recvPc[a] = "recv" /\ recvPc'[a] = "proc"
     /\ Blocked => (~Handoff /\ calls' = calls)
     /\ \A a \in Attempts :
          (recvPc[a] = "proc" /\ recvPc'[a] \in {"loop", "recv"}) =>
             user_message' = ""]_vars

\* C3 witness: a handoff of two accumulated texts is in progress.
C3_Witness ==
  /\ Blocked
  /\ Last(messages) = Entry("user", "Hello there")
  /\ calls = <<"Hello there">>

\* C4: entry 0 of the log is the system entry, and every step leaves the
\* log as it was or extends it at the end.
C4_AppendOnly ==
  /\ [](messages[1] = Entry("system", system_prompt))
  /\ [][IsPrefix(messages, messages')]_vars

\* C4 witness: a user and an assistant entry have been appended after the
\* two entries of construction.
C4_Witness ==
  /\ Len(messages) >= 4
  /\ messages[1].role = "system"
  /\ messages[4].role = "assistant"

\* C5: the step in which process_transcripts returns appends exactly one
\* assistant entry, the concatenation of all increments the stream
\* yielded, and empties the accumulator; only the non-empty increments
\* were printed; no other step appends an assistant entry.
C5_StreamExhaustion ==
  /\ [](stdout = NonEmpty(yielded))
  /\ [][/\ (\E a \in Attempts : recvPc[a] = "proc" /\ recvPc'[a] = "loop") =>
             /\ messages' = Append(messages,
                                   Entry("assistant", Concat(yielded)))
             /\ assistant_message' = ""
        /\ AssistantEntries(messages') # AssistantEntries(messages) =>
             \E a \in Attempts : recvPc[a] = "proc" /\ recvPc'[a] = "loop"]_vars

\* C5 witness: the stream yielded "Hi", "", " back" and ran to exhaustion.
C5_Witness ==
  /\ Last(messages) = Entry("assistant", "Hi back")
  /\ assistant_message = ""
  /\ ~Blocked

\* A payload that is not a final-type transcript event: unparsable, an
\* object without text or message_type, or one of a non-final type.
Malformed(ev) == ~IsFinalPayload(ev)

\* This step is the supervisor leaving gather.
GatherEnds == main = "gather" /\ main' # "gather"

\* This step is the supervisor leaving a failed websockets.connect.
ConnectFails == main = "connecting" /\ main' \notin {"connecting", "gather"}

Terminated == {"exited", "crashed"}

\* C6: when gather delivers an idle disconnect and the stop flag is not
\* set, the supervisor makes exactly one new connection attempt, does not
\* leave its loop and emits no fatal report; and a connection attempt is
\* only ever made at the start of the loop or for an idle disconnect.
C6_IdleReconnects ==
  [][/\ (GatherEnds /\ gatherExc = ConnectionClosedErrorIdle
           /\ ~stop_transcription) =>
          /\ attempt' = attempt + 1
          /\ main' = "connecting"
          /\ stderr' = stderr
     /\ attempt' # attempt =>
          /\ attempt' = attempt + 1
          /\ ~stop_transcription
          /\ \/ main = "loop"
             \/ main = "gather" /\ gatherExc = ConnectionClosedErrorIdle]_vars

\* C6 witness: after an idle disconnect the second connection is up, both
\* tasks run on it, and nothing fatal was reported.
C6_Witness ==
  /\ attempt = 2
  /\ main = "gather"
  /\ conn = "open"
  /\ stderr = {}

\* C7: when the connection attempt ends with anything but an idle
\* disconnect (a failed connect, or gather delivering another exception),
\* the process terminates and no further connection attempt is made.
C7_OtherErrorTerminates ==
  [][(\/ ConnectFails
      \/ GatherEnds /\ gatherExc \notin {"none", ConnectionClosedErrorIdle}) =>
       /\ main' \in Terminated
       /\ attempt' = attempt]_vars

\* C8: after taking a malformed payload the Receiver is back in its loop
\* on the same connection, and no exception reaches the supervisor.
C8_MalformedIgnored ==
  [][(Received /\ Malformed(result')) =>
       /\ \A a \in Attempts : recvPc[a] = "recv" => recvPc'[a] \in {"recv", "loop"}
       /\ gatherExc' = gatherExc]_vars

\* C9: the Receiver taking a malformed payload changes neither the
\* transcript buffer nor the conversation log.
C9_MalformedNoMutation ==
  [][(Received /\ Malformed(result')) =>
       UNCHANGED <<user_message, messages>>]_vars

\* C9 witness: an unparsable payload was taken while the buffer held the
\* text of an earlier final event.
C9_Witness ==
  /\ result = Unparsable
  /\ nEvents = 2
  /\ user_message = "Hello "

\* C10: once the supervisor has left a connection attempt, to reconnect or
\* to end, no task started for that attempt is still running.
C10_NoTaskSurvives ==
  \A a \in Attempts :
    (a < attempt \/ (a = attempt /\ main \in {"joining"} \cup Terminated)) =>
       (sendPc[a] \notin Running /\ recvPc[a] \notin Running)

\* C11: once the stop flag is set, a Sender that takes its next loop check
\* stops, a Receiver that takes its next loop check stops, and, the tasks
\* being scheduled fairly and the blocking calls in flight completing, the
\* Supervisor leaves its loop with the Connection closed and no task
\* running.
C11_StopTerminates ==
  /\ [][stop_transcription =>
          \A a \in Attempts :
            /\ (sendPc[a] = "run" /\ sendPc'[a] # "run") =>
                 sendPc'[a] \in {"done", "cancelled"}
            /\ (recvPc[a] = "loop" /\ recvPc'[a] # "loop") =>
                 recvPc'[a] \in {"done", "cancelled"}]_vars
  /\ stop_transcription ~>
        /\ main \in Terminated
        /\ conn # "open"
        /\ \A a \in Attempts : sendPc[a] \notin Running /\ recvPc[a] \notin Running

\* The stop flag was set while both tasks were running on an open
\* connection; both have observed it and the Supervisor has returned.
C11_Witness ==
  /\ stop_transcription
  /\ main = "exited"
  /\ conn = "closed"
  /\ \E a \in Attempts : sendPc[a] = "done" /\ recvPc[a] = "done"

\* C12: a completion request or response stream that fails leaves the log
\* ending with the user entry of that utterance, and from then on the log
\* gets no entry, no completion request is made, no connection attempt is
\* started, and the only step of the Supervisor is to report the error and
\* leave its loop.
C12_CompletionFailureEndsRun ==
  [][/\ (stream # "failed" /\ stream' = "failed") =>
          /\ messages' = messages
          /\ Last(messages) = Entry("user", Last(calls))
          /\ gatherExc' = APIError
     /\ stream = "failed" =>
          /\ stream' = "failed"
          /\ messages' = messages
          /\ calls' = calls
          /\ attempt' = attempt
          /\ main' # main =>
               /\ main' \in {"joining", "exited"}
               /\ "Unexpected error" \in stderr']_vars

\* The stream failed after it had yielded text: the Supervisor has left
\* its loop, the text is in no entry.
C12_Witness ==
  /\ stream = "failed"
  /\ main \in {"joining", "exited"}
  /\ assistant_message = "Hi"
  /\ Last(messages) = Entry("user", "Hello there")

\* The Receivers inside process_transcripts: between the user-entry append
\* of line 122 and the assistant-entry append of line 139.
Processing == {a \in Attempts : recvPc[a] = "proc"}

\* C13: at most one Receiver is inside process_transcripts, a completion
\* request is in progress exactly then, and while it is, the log holds
\* exactly one user entry without its assistant entry, the last one, which
\* is the utterance of the request in progress.
C13_SingleFlight ==
  /\ Cardinality(Processing) <= 1
  /\ Processing # {} <=> stream \in {"request", "open"}
  /\ Processing # {} =>
       /\ Len(calls) = Len(AssistantEntries(messages)) + 1
       /\ Len(UserEntries(messages)) = Len(calls) + 1
       /\ Last(messages) = Entry("user", Last(calls))

\* A completion stream is open on the second connection, which has
\* closed in the meantime, and the toggle was switched to Active after the
\* handoff.
C13_Witness ==
  /\ Processing # {}
  /\ stream = "open"
  /\ attempt = 2
  /\ conn \in CloseKinds
  /\ transcribing

\* The Senders ended by a websocket.send that raised.
FailedSenders == {a \in Attempts : sendPc[a] = "raised"}

\* C14: a frame is pulled only while the toggle is Active, one at a time,
\* and it is transmitted as one message unless the transmission raises and
\* ends the Sender; a message is transmitted only for the frame just
\* pulled; while the toggle is Paused no frame is pulled and no message
\* transmitted.  Hence the frames pulled are the frames transmitted and
\* one frame for each Sender ended by a failed transmission.
C14_OneFramePerActiveCycle ==
  [][/\ pulled' # pulled =>
          /\ transcribing
          /\ pulled' = pulled + 1
          /\ \/ sent' = Append(sent, pulled')
             \/ /\ sent' = sent
                /\ \E a \in Attempts : sendPc[a] = "run" /\ sendPc'[a] = "raised"
     /\ sent' # sent =>
          /\ pulled' = pulled + 1
          /\ sent' = Append(sent, pulled')
     /\ ~transcribing => UNCHANGED <<pulled, sent>>
     /\ pulled = Len(sent) + Cardinality(FailedSenders)]_vars

\* The Sender of the first connection pulled frame 1 and failed to
\* transmit it; the Sender of the second connection pulled and transmitted
\* frame 2; the toggle is Paused again.
C14_Witness ==
  /\ pulled = 2
  /\ sent = <<2>>
  /\ sendPc[1] = "raised"
  /\ sendPc[2] = "run"
  /\ ~transcribing

\* s is t with some elements left out, the order kept.
RECURSIVE IsSubsequence(_, _)
IsSubsequence(s, t) ==
  IF s = <<>> THEN TRUE
  ELSE IF t = <<>> THEN FALSE
  ELSE IF Head(s) = Head(t) THEN IsSubsequence(Tail(s), Tail(t))
  ELSE IsSubsequence(s, Tail(t))

\* C15: the frames transmitted are in the order they were pulled, and the
\* Transcript Buffer is the texts of final events in the order the events
\* were received.
C15_NoReordering ==
  /\ \A i, j \in 1..Len(sent) : i < j => sent[i] < sent[j]
  /\ IsSubsequence(pending, SubSeq(Texts, 1, nEvents))
  /\ user_message = Concat(pending)

\* Two frames went out and two final events came in on the first
\* connection.
C15_Witness ==
  /\ attempt = 1
  /\ sent = <<1, 2>>
  /\ pending = <<"Hello ", "there">>
  /\ user_message = "Hello there"

\* The steps of a reconnect: the Supervisor goes from gather to the next
\* websockets.connect call, and from that call to the next gather.
Reconnects ==
  \/ main = "gather" /\ main' = "connecting"
  \/ main = "connecting" /\ main' = "gather" /\ attempt > 1

\* C16: the steps of an idle-disconnect reconnect leave the Transcript
\* Buffer, the Conversation Log and the toggle as they are, and every
\* final event received, on whichever connection, is concatenated after the
\* text the buffer holds and, the toggle being Paused, handed off with it.
C16_ReconnectKeepsSession ==
  [][/\ Reconnects =>
          /\ gatherExc \in {"none", ConnectionClosedErrorIdle}
          /\ UNCHANGED <<user_message, messages, transcribing>>
     /\ (Received /\ IsFinalPayload(result')) =>
          /\ user_message' = user_message \o result'.fields["text"]
          /\ ~transcribing => Last(messages') = Entry("user", user_message')]_vars

\* The second websockets.connect call is in flight and the buffer holds
\* the text received on the first connection.
C16_Witness ==
  /\ attempt = 2
  /\ main = "connecting"
  /\ user_message = "Hello "
  /\ transcribing

\* C17: the toggle is Active exactly when the number of toggle signals so
\* far is odd: it starts Paused, every signal flips it, and no step of the
\* Sender, the Receiver, the Conversation Processor or the Supervisor
\* changes it.
C17_ToggleOnlyBySignal == transcribing <=> (nToggles % 2 = 1)

\* Two signals, a reconnect and a completed handoff later, the toggle is
\* Paused as at the start.
C17_Witness ==
  /\ nToggles = 2
  /\ ~transcribing
  /\ attempt = 2
  /\ Len(messages) = 4

\* C18: while a Receiver is inside process_transcripts no frame is pulled
\* or transmitted, no inbound event is consumed, and no Sender and no other
\* Receiver takes a step, whatever the toggle is.
C18_ProcessingBlocksTasks ==
  [][Processing # {} =>
       /\ UNCHANGED <<pulled, sent, nEvents, result, sendPc>>
       /\ \A a \in Attempts \ Processing : recvPc'[a] = recvPc[a]]_vars

\* A completion stream is open, the toggle was switched to Active after
\* the handoff, and the Sender of the open connection has frames to send.
C18_Witness ==
  /\ Processing = {attempt}
  /\ stream = "open"
  /\ transcribing
  /\ ~stop_transcription
  /\ conn = "open"
  /\ sendPc[attempt] = "run"
  /\ pulled < MaxFrames

\* C19: the log is the system entry, the user note, then user and
\* assistant entries in turn, the user entries being the utterances handed
\* off, in order; it ends with a user entry exactly while a Receiver is
\* inside process_transcripts or after a completion has failed.
C19_LogShape ==
  /\ Len(messages) >= 2
  /\ messages[1] = Entry("system", system_prompt)
  /\ messages[2] = Entry("user", NOTE)
  /\ \A i \in 3..Len(messages) :
        IF i % 2 = 1
          THEN /\ (i - 1) \div 2 <= Len(calls)
               /\ messages[i] = Entry("user", calls[(i - 1) \div 2])
          ELSE messages[i].role = "assistant"
  /\ Len(calls) = (Len(messages) - 1) \div 2
  /\ (Len(messages) % 2 = 1) <=> (Processing # {} \/ stream = "failed")

\* Two handoffs: the first ended with an empty assistant entry, the second
\* is in progress.
C19_Witness ==
  /\ Len(messages) = 5
  /\ messages[4] = Entry("assistant", "")
  /\ Processing # {}

====
